---- MODULE Spec2Model ----
(***************************************************************************)
(* A model of gatherdata.py: the multi-encoding text reader                *)
(* (_try_read_file), the directory walk and file selection                 *)
(* (gather_specified_files), the markdown writer (create_markdown_file)    *)
(* and the script's entry point.                                           *)
(*                                                                         *)
(* Text is modelled at two levels.  File contents are sequences of bytes   *)
(* (0..255) and decoded text is a sequence of Unicode code points.  Paths  *)
(* and file names are sequences of one-character strings, so that          *)
(* str.startswith / str.endswith are computed character by character.      *)
(***************************************************************************)
EXTENDS Integers, Sequences, FiniteSets, TLC

VARIABLES
    tree,               \* the directory tree in os.walk order: <<[dir, name, bytes]>>
    idx,                \* index into tree of the next file the walk yields
    gathered_content,   \* the ordered dict being built: <<[path, content]>>
    readLog,            \* history: one record per _try_read_file call
    gPc,                \* position of gather_specified_files
    file_data,          \* the mapping handed to __main__'s if / create_markdown_file
    prevDisk,           \* history: the destination as it was before the run
    disk,               \* the destination file: [exists, data]
    buffer,             \* chunks written to md_file and not yet flushed to disk
    entryNo,            \* create_markdown_file: the entry being written (1-based)
    step,               \* create_markdown_file: the next write of that entry (1..4)
    pc,                 \* position of __main__ / create_markdown_file
    stdout              \* diagnostics printed by __main__ / create_markdown_file

gatherVars == <<tree, idx, gathered_content, readLog, gPc>>
emitVars == <<file_data, prevDisk, disk, buffer, entryNo, step, pc, stdout>>
vars == <<tree, idx, gathered_content, readLog, gPc,
          file_data, prevDisk, disk, buffer, entryNo, step, pc, stdout>>

(***************************************************************************)
(* Bounds of the model.                                                    *)
(***************************************************************************)
MaxLen == 4
MaxFiles == 2
MaxEntries == 2

(***************************************************************************)
(* String helpers: str.startswith, str.endswith, os.path.join.             *)
(***************************************************************************)
StartsWith(s, p) ==
    /\ Len(p) <= Len(s)
    /\ SubSeq(s, 1, Len(p)) = p

EndsWith(s, suf) ==
    /\ Len(suf) <= Len(s)
    /\ SubSeq(s, Len(s) - Len(suf) + 1, Len(s)) = suf

EndsWithAny(s, sufs) == \E suf \in sufs : EndsWith(s, suf)

PathJoin(a, b) ==
    IF a = <<>> THEN b
    ELSE IF a[Len(a)] = "/" THEN a \o b
    ELSE a \o <<"/">> \o b

(***************************************************************************)
(* Decoded text and the reader's "no content" value.                       *)
(***************************************************************************)
None == [ok |-> FALSE, text |-> <<>>]

Text(t) == [ok |-> TRUE, text |-> t]

DecodeError == [kind |-> "UnicodeDecodeError", text |-> <<>>]

Decoded(t) == [kind |-> "ok", text |-> t]

\* c prepended to the text of a successful decode r; a failure is passed on.
Cons(c, r) == IF r.kind = "ok" THEN Decoded(<<c>> \o r.text) ELSE r

Drop(s, n) == SubSeq(s, n + 1, Len(s))

(***************************************************************************)
(* The codecs behind open(file_path, 'r', encoding=...).read(), which      *)
(* decodes the whole file at once (final=True).  The byte values the model *)
(* draws file contents from:                                               *)
(*   10 LF, 13 CR, 65 'A'                                                  *)
(*   129 (0x81)  UTF-8 continuation; undefined in cp1250 and in cp1252     *)
(*   131 (0x83)  UTF-8 continuation; undefined in cp1250, U+0192 in cp1252 *)
(*   216 (0xD8)  UTF-8 two-byte lead; high byte of a UTF-16 high surrogate *)
(*   254, 255    never valid in UTF-8; FF FE / FE FF are the UTF-16 BOMs   *)
(***************************************************************************)
ByteAlphabet == {10, 13, 65, 129, 131, 216, 254, 255}

ByteSeqs(n) == UNION {[1..k -> ByteAlphabet] : k \in 0..n}

\* utf-8: one-byte and two-byte forms (ByteAlphabet holds no lead byte of a
\* three- or four-byte form; 0xC0, 0xC1 and 0xF5..0xFF are never valid).
RECURSIVE Utf8Decode(_)
Utf8Decode(b) ==
    IF b = <<>> THEN Decoded(<<>>)
    ELSE IF b[1] < 128 THEN Cons(b[1], Utf8Decode(Tail(b)))
    ELSE IF b[1] \in 194..223 /\ Len(b) >= 2 /\ b[2] \in 128..191
         THEN Cons((b[1] - 192) * 64 + (b[2] - 128), Utf8Decode(Drop(b, 2)))
    ELSE DecodeError

\* The 16-bit code units of an even-length byte string.
RECURSIVE Utf16Units(_, _)
Utf16Units(b, bigEndian) ==
    IF Len(b) < 2 THEN <<>>
    ELSE <<IF bigEndian THEN b[1] * 256 + b[2] ELSE b[2] * 256 + b[1]>>
         \o Utf16Units(Drop(b, 2), bigEndian)

IsHighSurrogate(u) == u \in 55296..56319

IsLowSurrogate(u) == u \in 56320..57343

RECURSIVE Utf16FromUnits(_)
Utf16FromUnits(u) ==
    IF u = <<>> THEN Decoded(<<>>)
    ELSE IF IsHighSurrogate(u[1])
         THEN IF Len(u) >= 2 /\ IsLowSurrogate(u[2])
              THEN Cons(65536 + (u[1] - 55296) * 1024 + (u[2] - 56320),
                        Utf16FromUnits(Drop(u, 2)))
              ELSE DecodeError
    ELSE IF IsLowSurrogate(u[1]) THEN DecodeError
    ELSE Cons(u[1], Utf16FromUnits(Tail(u)))

\* A byte string in one byte order: an odd length is "truncated data".
Utf16Body(b, bigEndian) ==
    IF Len(b) % 2 = 1 THEN DecodeError
    ELSE Utf16FromUnits(Utf16Units(b, bigEndian))

\* utf-16 through the incremental decoder a text file uses: a BOM selects the
\* byte order; without one the bytes are first decoded in native (little
\* endian) order, which may raise UnicodeDecodeError, and if that consumed at
\* least two bytes the decoder raises UnicodeError("UTF-16 stream does not
\* start with BOM"), which is not a UnicodeDecodeError.
Utf16Decode(b) ==
    IF Len(b) >= 2 /\ b[1] = 255 /\ b[2] = 254 THEN Utf16Body(Drop(b, 2), FALSE)
    ELSE IF Len(b) >= 2 /\ b[1] = 254 /\ b[2] = 255 THEN Utf16Body(Drop(b, 2), TRUE)
    ELSE IF Utf16Body(b, FALSE).kind # "ok" THEN DecodeError
    ELSE IF Len(b) >= 2 THEN [kind |-> "UnicodeError", text |-> <<>>]
    ELSE Decoded(<<>>)

Cp1250Undefined == {129, 131, 136, 144, 152}

\* cp1250's code points for the bytes of ByteAlphabet (ASCII maps to itself).
Cp1250Point(x) ==
    CASE x < 128 -> x
      [] x = 216 -> 344
      [] x = 254 -> 355
      [] x = 255 -> 729

Cp1252Undefined == {129, 141, 143, 144, 157}

\* cp1252's code points: ASCII and 0xA0..0xFF map to themselves.
Cp1252Point(x) ==
    CASE x < 128 \/ x >= 160 -> x
      [] x = 131 -> 402

\* latin-1 defines every byte, as the code point of the same number.
Latin1Point(x) == x

CharmapUndefined(codepage) ==
    CASE codepage = "cp1250" -> Cp1250Undefined
      [] codepage = "cp1252" -> Cp1252Undefined
      [] codepage = "latin-1" -> {}

CharmapPoint(codepage, x) ==
    CASE codepage = "cp1250" -> Cp1250Point(x)
      [] codepage = "cp1252" -> Cp1252Point(x)
      [] codepage = "latin-1" -> Latin1Point(x)

\* A single-byte code page: the bytes it leaves undefined fail to decode.
RECURSIVE CharmapDecode(_, _)
CharmapDecode(b, codepage) ==
    IF b = <<>> THEN Decoded(<<>>)
    ELSE IF b[1] \in CharmapUndefined(codepage) THEN DecodeError
    ELSE Cons(CharmapPoint(codepage, b[1]), CharmapDecode(Tail(b), codepage))

Decode(encoding_val, b) ==
    CASE encoding_val = "utf-8" -> Utf8Decode(b)
      [] encoding_val = "utf-16" -> Utf16Decode(b)
      [] encoding_val \in {"cp1250", "latin-1", "cp1252"} -> CharmapDecode(b, encoding_val)

\* Text mode with newline=None: "\r\n" and a lone "\r" are read as "\n".
RECURSIVE TranslateNewlines(_)
TranslateNewlines(t) ==
    IF t = <<>> THEN <<>>
    ELSE IF t[1] = 13 /\ Len(t) >= 2 /\ t[2] = 10
         THEN <<10>> \o TranslateNewlines(Drop(t, 2))
    ELSE IF t[1] = 13 THEN <<10>> \o TranslateNewlines(Tail(t))
    ELSE <<t[1]>> \o TranslateNewlines(Tail(t))

(***************************************************************************)
(* _try_read_file.  ioFailAt is the environment: the number of the attempt *)
(* whose open/read raises an OSError (permission denied, file vanished),   *)
(* 0 for none.                                                             *)
(***************************************************************************)
\* The candidate list without its accept-everything entry.
encodings_without_latin1 == <<
    [val |-> "utf-8",   name |-> "UTF-8"],
    [val |-> "utf-16",  name |-> "UTF-16 (BOM-sensitive)"],
    [val |-> "cp1250",  name |-> "CP1250 (Srodkowoeuropejskie)"],
    [val |-> "cp1252",  name |-> "CP1252 (Zachodnioeuropejskie Windows)"] >>

encodings_to_try == <<
    [val |-> "utf-8",   name |-> "UTF-8"],
    [val |-> "utf-16",  name |-> "UTF-16 (BOM-sensitive)"],
    [val |-> "cp1250",  name |-> "CP1250 (Srodkowoeuropejskie)"],
    [val |-> "latin-1", name |-> "Latin-1 (ISO-8859-1)"],
    [val |-> "cp1252",  name |-> "CP1252 (Zachodnioeuropejskie Windows)"] >>

\* with open(file_path, 'r', encoding=encoding_val) as f: return f.read()
OpenRead(encoding_val, b, ioFails) ==
    IF ioFails THEN [kind |-> "OSError", text |-> <<>>]
    ELSE LET d == Decode(encoding_val, b)
         IN  IF d.kind = "ok" THEN Decoded(TranslateNewlines(d.text)) ELSE d

\* TryFrom with "except Exception" moving on to the next candidate as a decode
\* failure does, instead of returning None.
RECURSIVE TryFromSwallow(_, _, _, _)
TryFromSwallow(k, b, ioFailAt, attempts) ==
    IF k > Len(encodings_to_try)
    THEN [content |-> None, attempts |-> attempts, diag |-> "decode_failed"]
    ELSE LET r == OpenRead(encodings_to_try[k].val, b, ioFailAt = k)
             tried == Append(attempts,
                             [enc |-> encodings_to_try[k].val, outcome |-> r.kind])
         IN  IF r.kind = "ok"
             THEN [content |-> Text(r.text), attempts |-> tried, diag |-> ""]
             ELSE TryFromSwallow(k + 1, b, ioFailAt, tried)

\* The for loop from candidate k on; attempts is the trace of what was tried.
RECURSIVE TryFrom(_, _, _, _)
TryFrom(k, b, ioFailAt, attempts) ==
    IF k > Len(encodings_to_try)
    THEN [content |-> None, attempts |-> attempts, diag |-> "decode_failed"]
    ELSE LET r == OpenRead(encodings_to_try[k].val, b, ioFailAt = k)
             tried == Append(attempts,
                             [enc |-> encodings_to_try[k].val, outcome |-> r.kind])
         IN  IF r.kind = "ok"
             THEN [content |-> Text(r.text), attempts |-> tried, diag |-> ""]
             ELSE IF r.kind = "UnicodeDecodeError"
             THEN TryFrom(k + 1, b, ioFailAt, tried)
             ELSE [content |-> None, attempts |-> tried, diag |-> "read_error"]

try_read_file(b, ioFailAt) == TryFrom(1, b, ioFailAt, <<>>)

(***************************************************************************)
(* gather_specified_files: the walk and the selection.                     *)
(***************************************************************************)
SRC == <<"s", "r", "c">>

ASSETS == <<"a", "s", "s", "e", "t", "s">>

SHADERS == <<"s", "h", "a", "d", "e", "r", "s">>

DOT_CPP == <<".", "c", "p", "p">>

\* os.path.abspath(start_dir) for the start_dir "." of __main__.
start_dir_abs == <<"/", "r">>

src_dir_abs == PathJoin(start_dir_abs, SRC)

assets_shaders_dir_abs == PathJoin(PathJoin(start_dir_abs, ASSETS), SHADERS)

\* The absolute path os.walk yields for the directory with components dir.
RECURSIVE DirAbs(_)
DirAbs(dir) ==
    IF dir = <<>> THEN start_dir_abs
    ELSE PathJoin(DirAbs(SubSeq(dir, 1, Len(dir) - 1)), dir[Len(dir)])

\* os.path.relpath of a path inside start.
RelPath(path_abs, start) == Drop(path_abs, Len(start) + 1)

\* should_include comparing the src directory for equality: no descent.
should_include_flat(current_root_abs, file_name) ==
    IF current_root_abs = start_dir_abs /\ EndsWith(file_name, DOT_CPP) THEN TRUE
    ELSE IF current_root_abs = src_dir_abs THEN TRUE
    ELSE IF StartsWith(current_root_abs, assets_shaders_dir_abs) THEN TRUE
    ELSE FALSE

should_include(current_root_abs, file_name) ==
    IF current_root_abs = start_dir_abs /\ EndsWith(file_name, DOT_CPP) THEN TRUE
    ELSE IF StartsWith(current_root_abs, src_dir_abs) THEN TRUE
    ELSE IF StartsWith(current_root_abs, assets_shaders_dir_abs) THEN TRUE
    ELSE FALSE

\* An ordered dict as a sequence of [path, content]: d[k] = v.
Keys(d) == {d[i].path : i \in 1..Len(d)}

DictSet(d, k, v) ==
    IF k \in Keys(d)
    THEN [i \in 1..Len(d) |-> IF d[i].path = k THEN [path |-> k, content |-> v] ELSE d[i]]
    ELSE Append(d, [path |-> k, content |-> v])

\* Collect testing the content's truth value ("if content:"), which drops "".
CollectTruthy(gathered, file_path_rel, content) ==
    IF content # None /\ content.text # <<>>
    THEN DictSet(gathered, file_path_rel, content.text)
    ELSE gathered

\* if content is not None: gathered_content[file_path_rel] = content
Collect(gathered, file_path_rel, content) ==
    IF content # None THEN DictSet(gathered, file_path_rel, content.text)
    ELSE gathered

(***************************************************************************)
(* The files a tree is drawn from, in the order os.walk (topdown) yields   *)
(* them: a directory's own files, then each of its subdirectories.         *)
(***************************************************************************)
CandidateFiles == <<
    [dir |-> <<>>,                        name |-> <<"m", ".", "c", "p", "p">>],
    [dir |-> <<>>,                        name |-> <<"n", ".", "t", "x", "t">>],
    [dir |-> <<ASSETS>>,                  name |-> <<"l", ".", "p", "n", "g">>],
    [dir |-> <<ASSETS, SHADERS>>,         name |-> <<"a", ".", "g", "l", "s", "l">>],
    [dir |-> <<ASSETS, SHADERS, <<"s", "u", "b">> >>,
                                          name |-> <<"v">>],
    [dir |-> <<ASSETS, SHADERS \o <<"_", "o", "l", "d">> >>,
                                          name |-> <<"z", ".", "f", "r", "a", "g">>],
    [dir |-> << <<"d", "o", "c", "s">> >>, name |-> <<"d", ".", "c", "p", "p">>],
    [dir |-> << <<"d", "o", "c", "s">>, SRC >>,
                                          name |-> <<"e", ".", "h">>],
    [dir |-> <<SRC>>,                     name |-> <<"a", ".", "h">>],
    [dir |-> <<SRC, <<"n", "e", "s", "t", "e", "d">> >>,
                                          name |-> <<"f", ".", "t", "x", "t">>],
    [dir |-> <<SRC \o <<"o", "l", "d">> >>, name |-> <<"o", ".", "t", "x", "t">>] >>

\* File contents a tree's files are drawn from, one for each way a read ends:
\* empty; UTF-8 with a CR LF; rejected by all but latin-1; cp1250 text of even
\* length without a BOM; UTF-16 with a BOM; rejected by all but latin-1, of
\* even length without a BOM.
SampleBytes == { <<>>, <<65, 13, 10>>, <<129>>, <<216, 65>>,
                 <<255, 254, 65, 65>>, <<129, 129>> }

\* The members of a set of numbers in increasing order.
Ascending(S) ==
    CHOOSE f \in [1..Cardinality(S) -> S] :
        \A i, j \in 1..Cardinality(S) : i < j => f[i] < f[j]

TreeOf(S, bs) ==
    LET o == Ascending(S)
    IN  [i \in 1..Cardinality(S) |->
            [dir |-> CandidateFiles[o[i]].dir,
             name |-> CandidateFiles[o[i]].name,
             bytes |-> bs[i]]]

NoDisk == [exists |-> FALSE, data |-> <<>>]

EmitIdle ==
    /\ file_data = <<>>
    /\ prevDisk = NoDisk
    /\ disk = NoDisk
    /\ buffer = <<>>
    /\ entryNo = 0
    /\ step = 0
    /\ pc = "idle"
    /\ stdout = <<>>

GatherStart ==
    /\ idx = 1
    /\ gathered_content = <<>>
    /\ readLog = <<>>
    /\ gPc = "walking"

InitGather ==
    /\ \E S \in SUBSET (1..Len(CandidateFiles)) :
         /\ Cardinality(S) <= MaxFiles
         /\ \E bs \in [1..Cardinality(S) -> SampleBytes] : tree = TreeOf(S, bs)
    /\ GatherStart
    /\ EmitIdle

\* One file under src, with every content up to MaxLen bytes.
InitOneFile ==
    /\ \E b \in ByteSeqs(MaxLen) :
         tree = <<[dir |-> <<SRC>>, name |-> <<"a", ".", "h">>, bytes |-> b]>>
    /\ GatherStart
    /\ EmitIdle

\* One iteration of "for file_name in files" (of some directory of the walk).
Visit ==
    /\ gPc = "walking"
    /\ idx <= Len(tree)
    /\ LET f == tree[idx]
           current_root_abs == DirAbs(f.dir)
           file_path_abs == PathJoin(current_root_abs, f.name)
           file_path_rel == RelPath(file_path_abs, start_dir_abs)
       IN  IF should_include(current_root_abs, f.name)
           THEN \E ioFailAt \in 0..Len(encodings_to_try) :
                  LET r == try_read_file(f.bytes, ioFailAt)
                  IN  /\ readLog' = Append(readLog,
                            [i |-> idx, path |-> file_path_rel, bytes |-> f.bytes,
                             attempts |-> r.attempts, content |-> r.content,
                             diag |-> r.diag])
                      /\ gathered_content' =
                            Collect(gathered_content, file_path_rel, r.content)
           ELSE UNCHANGED <<readLog, gathered_content>>
    /\ idx' = idx + 1
    /\ UNCHANGED <<tree, gPc>>
    /\ UNCHANGED emitVars

\* The walk is exhausted: return gathered_content.
Return ==
    /\ gPc = "walking"
    /\ idx > Len(tree)
    /\ gPc' = "returned"
    /\ UNCHANGED <<tree, idx, gathered_content, readLog>>
    /\ UNCHANGED emitVars

NextGather == Visit \/ Return

SpecGather == InitGather /\ [][NextGather]_vars

SpecOneFile == InitOneFile /\ [][NextGather]_vars

(***************************************************************************)
(* Properties of the reader and the collector.                             *)
(***************************************************************************)
TopLevel(f) == f.dir = <<>>

UnderSrc(f) == Len(f.dir) >= 1 /\ f.dir[1] = SRC

UnderShaders(f) == Len(f.dir) >= 2 /\ f.dir[1] = ASSETS /\ f.dir[2] = SHADERS

\* The path of a file relative to the root: its components joined by "/".
RECURSIVE JoinComponents(_)
JoinComponents(cs) ==
    IF Len(cs) = 1 THEN cs[1]
    ELSE cs[1] \o <<"/">> \o JoinComponents(Tail(cs))

RelOf(f) == JoinComponents(Append(f.dir, f.name))

LogEntries == 1..Len(readLog)

ReadsOf(i) == {j \in LogEntries : readLog[j].i = i}

Outcomes(e) == {e.attempts[k].outcome : k \in 1..Len(e.attempts)}

DecodeOutcomes == {"ok", "UnicodeDecodeError"}

Accepts(encoding_val, b) == Decode(encoding_val, b).kind = "ok"

HasEntry(d, p, t) == \E m \in 1..Len(d) : d[m] = [path |-> p, content |-> t]

\* C1: absent an I/O error, the candidates are attempted strictly in list
\* order, each only after every earlier one failed to decode; the reader
\* returns the text read by the first candidate that accepts the bytes and
\* attempts nothing after it; valid UTF-8 (empty included) is returned as read
\* by UTF-8.
C1_FirstAcceptingCandidateWins ==
    \A j \in LogEntries :
        LET e == readLog[j]
            n == Len(e.attempts)
        IN  "OSError" \notin Outcomes(e) =>
              /\ n <= Len(encodings_to_try)
              /\ \A k \in 1..n : e.attempts[k].enc = encodings_to_try[k].val
              /\ \A k \in 1..(n - 1) : e.attempts[k].outcome = "UnicodeDecodeError"
              /\ \A k \in 1..Len(encodings_to_try) :
                    ( /\ Accepts(encodings_to_try[k].val, e.bytes)
                      /\ \A m \in 1..(k - 1) : ~Accepts(encodings_to_try[m].val, e.bytes) )
                    => /\ n = k
                       /\ e.content =
                            Text(OpenRead(encodings_to_try[k].val, e.bytes, FALSE).text)
              /\ Accepts("utf-8", e.bytes) =>
                    /\ n = 1
                    /\ e.content = Text(OpenRead("utf-8", e.bytes, FALSE).text)

\* C2: an attempt that fails with anything but a decode failure is the last
\* attempt for its file; the reader returns None, the path gets no entry in
\* the mapping, and the walk goes on over the remaining files to its return.
C2_NonDecodeErrorAbortsFileOnly ==
    /\ gPc \in {"walking", "returned"}
    /\ gPc = "returned" => idx = Len(tree) + 1
    /\ \A j \in LogEntries :
        LET e == readLog[j]
            n == Len(e.attempts)
        IN  ~(Outcomes(e) \subseteq DecodeOutcomes) =>
              /\ e.attempts[n].outcome \notin DecodeOutcomes
              /\ \A k \in 1..(n - 1) : e.attempts[k].outcome = "UnicodeDecodeError"
              /\ e.content = None
              /\ e.diag = "read_error"
              /\ e.path \notin Keys(gathered_content)
              /\ \A i \in (e.i + 1)..(idx - 1) :
                    should_include(DirAbs(tree[i].dir), tree[i].name)
                        => ReadsOf(i) # {}

C2_Witness ==
    /\ gPc = "returned"
    /\ Len(readLog) = 2
    /\ Len(readLog[1].attempts) = 3
    /\ readLog[1].attempts[3].outcome = "OSError"
    /\ readLog[1].path \notin Keys(gathered_content)
    /\ readLog[2].content # None
    /\ readLog[2].path \in Keys(gathered_content)

\* C3: every file handed to the reader is a top-level file whose name ends
\* with ".cpp", or lies under root/src, or lies under root/assets/shaders.
C3_OnlyRootCppSrcAndShaders ==
    \A j \in LogEntries :
        LET f == tree[readLog[j].i]
        IN  \/ TopLevel(f) /\ EndsWith(f.name, DOT_CPP)
            \/ UnderSrc(f)
            \/ UnderShaders(f)

\* C4: every visited file under root/src or root/assets/shaders (any depth,
\* any extension) is handed to the reader, with its relative path and its
\* bytes; a visited top-level file is handed over iff its name ends with
\* ".cpp"; no file is read twice, none before the walk reaches it, and the
\* walk returns only after the last file.
C4_SelectsEveryFileOnce ==
    /\ gPc = "returned" => idx = Len(tree) + 1
    /\ \A j \in LogEntries :
          /\ readLog[j].i \in 1..(idx - 1)
          /\ readLog[j].path = RelOf(tree[readLog[j].i])
          /\ readLog[j].bytes = tree[readLog[j].i].bytes
    /\ \A i \in 1..Len(tree) :
        LET f == tree[i]
            n == Cardinality(ReadsOf(i))
        IN  /\ n <= 1
            /\ (i < idx /\ (UnderSrc(f) \/ UnderShaders(f))) => n = 1
            /\ (i < idx /\ TopLevel(f)) => (n = 1 <=> EndsWith(f.name, DOT_CPP))

C4_Witness ==
    /\ gPc = "returned"
    /\ Len(tree) = 2
    /\ TopLevel(tree[1]) /\ ~EndsWith(tree[1].name, DOT_CPP) /\ ReadsOf(1) = {}
    /\ UnderSrc(tree[2]) /\ Len(tree[2].dir) = 2 /\ ReadsOf(2) # {}

RejectedByAllStrict(b) ==
    \A enc \in {"utf-8", "utf-16", "cp1250", "cp1252"} : ~Accepts(enc, b)

\* C5 as stated: a file whose bytes UTF-8, UTF-16, CP1250 and CP1252 all
\* reject yields None and has no entry in the mapping.
C5_RejectedByAllIsAbsent ==
    \A j \in LogEntries :
        LET e == readLog[j]
        IN  RejectedByAllStrict(e.bytes) =>
              /\ e.content = None
              /\ e.path \notin Keys(gathered_content)

\* C5 amended: for a file whose bytes UTF-8, UTF-16, CP1250 and CP1252 all
\* reject, total decode failure never happens and CP1252 is never attempted.
\* If the first three attempts end in decode failures and the fourth meets no
\* I/O error, Latin-1 accepts the bytes: the reader returns their Latin-1
\* reading and the path maps to it.  Otherwise an attempt ended in a
\* non-decode error (an I/O error, or UTF-16's UnicodeError for even-length
\* input without a BOM): the reader returns None and the path has no entry.
C5_Latin1AcceptsWhatOthersReject ==
    \A j \in LogEntries :
        LET e == readLog[j]
            n == Len(e.attempts)
        IN  RejectedByAllStrict(e.bytes) =>
              /\ e.diag # "decode_failed"
              /\ \A k \in 1..n : e.attempts[k].enc # "cp1252"
              /\ IF Outcomes(e) \subseteq DecodeOutcomes
                 THEN /\ n = 4
                      /\ e.attempts[4] = [enc |-> "latin-1", outcome |-> "ok"]
                      /\ e.content = Text(OpenRead("latin-1", e.bytes, FALSE).text)
                      /\ HasEntry(gathered_content, e.path, e.content.text)
                 ELSE /\ e.content = None
                      /\ e.diag = "read_error"
                      /\ e.path \notin Keys(gathered_content)
              /\ ( /\ Decode("utf-16", e.bytes).kind = "UnicodeDecodeError"
                   /\ "OSError" \notin Outcomes(e) )
                 => e.content # None

C5_Witness ==
    \E j \in LogEntries :
        /\ RejectedByAllStrict(readLog[j].bytes)
        /\ readLog[j].bytes = <<129>>
        /\ readLog[j].content = Text(<<129>>)
        /\ HasEntry(gathered_content, readLog[j].path, <<129>>)

\* The entries the reads logged so far put into the mapping, in order.
RECURSIVE SuccessesOf(_)
SuccessesOf(log) ==
    IF log = <<>> THEN <<>>
    ELSE LET e == log[Len(log)]
             before == SuccessesOf(SubSeq(log, 1, Len(log) - 1))
         IN  IF e.content.ok
             THEN Append(before, [path |-> e.path, content |-> e.content.text])
             ELSE before

\* C6: at every point of the walk and at its return, the mapping holds
\* exactly the paths read so far for which the reader returned content, each
\* with that content, in the order they were read; a path read as None has
\* no entry; no path has two entries; gather_specified_files never fails.
C6_MappingIsTheSuccessfulReads ==
    /\ gPc \in {"walking", "returned"}
    /\ gathered_content = SuccessesOf(readLog)
    /\ Cardinality(Keys(gathered_content)) = Len(gathered_content)
    /\ \A j \in LogEntries :
          readLog[j].content = None => readLog[j].path \notin Keys(gathered_content)

C6_Witness ==
    /\ gPc = "returned"
    /\ Len(readLog) = 2
    /\ readLog[1].content = None
    /\ readLog[2].content = Text(<<>>)
    /\ gathered_content = <<[path |-> readLog[2].path, content |-> <<>>]>>

(***************************************************************************)
(* create_markdown_file and __main__.                                      *)
(*                                                                         *)
(* The destination is a sequence of chunks, one per md_file.write call:    *)
(*   [w |-> "heading", path]   f"## Plik: {file_path}\n"                   *)
(*   [w |-> "fence", lang]     f"```{lang}\n"                              *)
(*   [w |-> "content", text]   content                                     *)
(*   [w |-> "end"]             "\n```\n\n"                                 *)
(* Writes go to the file object's buffer; the buffer reaches the disk when *)
(* it fills (Flush) and when the with block closes the file (Close).       *)
(***************************************************************************)
\* LangTag without line 92: headers get no tag.
LangTagNoHeaders(file_path) ==
    IF EndsWithAny(file_path, { <<".", "c", "p", "p">>, <<".", "c", "x", "x">>,
                                <<".", "c", "c">> }) THEN "cpp"
    ELSE IF EndsWithAny(file_path, { <<".", "g", "l", "s", "l">>, <<".", "f", "r", "a", "g">>,
                                     <<".", "v", "e", "r", "t">>,
                                     <<".", "s", "h", "a", "d", "e", "r">>,
                                     <<".", "g", "e", "o", "m">>, <<".", "t", "e", "s", "c">>,
                                     <<".", "t", "e", "s", "e">> }) THEN "glsl"
    ELSE IF EndsWith(file_path, <<".", "p", "y">>) THEN "python"
    ELSE IF EndsWith(file_path, <<".", "j", "s">>) THEN "javascript"
    ELSE IF EndsWith(file_path, <<".", "h", "t", "m", "l">>) THEN "html"
    ELSE IF EndsWith(file_path, <<".", "c", "s", "s">>) THEN "css"
    ELSE ""

\* lang = "" and the if / elif chain on file_path.endswith(...)
LangTag(file_path) ==
    IF EndsWithAny(file_path, { <<".", "c", "p", "p">>, <<".", "c", "x", "x">>,
                                <<".", "c", "c">> }) THEN "cpp"
    ELSE IF EndsWithAny(file_path, { <<".", "h">>, <<".", "h", "p", "p">>,
                                     <<".", "h", "x", "x">> }) THEN "cpp"
    ELSE IF EndsWithAny(file_path, { <<".", "g", "l", "s", "l">>, <<".", "f", "r", "a", "g">>,
                                     <<".", "v", "e", "r", "t">>,
                                     <<".", "s", "h", "a", "d", "e", "r">>,
                                     <<".", "g", "e", "o", "m">>, <<".", "t", "e", "s", "c">>,
                                     <<".", "t", "e", "s", "e">> }) THEN "glsl"
    ELSE IF EndsWith(file_path, <<".", "p", "y">>) THEN "python"
    ELSE IF EndsWith(file_path, <<".", "j", "s">>) THEN "javascript"
    ELSE IF EndsWith(file_path, <<".", "h", "t", "m", "l">>) THEN "html"
    ELSE IF EndsWith(file_path, <<".", "c", "s", "s">>) THEN "css"
    ELSE ""

\* The argument of the step-th md_file.write of an entry's loop iteration.
ChunkOf(entry, n) ==
    CASE n = 1 -> [w |-> "heading", path |-> entry.path]
      [] n = 2 -> [w |-> "fence", lang |-> LangTag(entry.path)]
      [] n = 3 -> [w |-> "content", text |-> entry.content]
      [] n = 4 -> [w |-> "end"]

WritesPerEntry == 4

\* Everything the loop over file_data.items() writes.
RECURSIVE Document(_)
Document(d) ==
    IF d = <<>> THEN <<>>
    ELSE <<ChunkOf(d[1], 1), ChunkOf(d[1], 2), ChunkOf(d[1], 3), ChunkOf(d[1], 4)>>
         \o Document(Tail(d))

IsPrefix(s, t) == Len(s) <= Len(t) /\ SubSeq(t, 1, Len(s)) = s

(***************************************************************************)
(* The mappings a run of the writer is drawn from: up to MaxEntries        *)
(* distinct entries of EntryPool, in any order.                            *)
(***************************************************************************)
PoolPaths == <<
    <<"a", ".", "c", "p", "p">>,
    <<"s", "r", "c", "/", "b", ".", "c", "x", "x">>,
    <<"c", ".", "c", "c">>,
    <<"s", "r", "c", "/", "d", ".", "h">>,
    <<"e", ".", "h", "p", "p">>,
    <<"f", ".", "h", "x", "x">>,
    <<"g", ".", "g", "l", "s", "l">>,
    <<"b", ".", "f", "r", "a", "g">>,
    <<"i", ".", "v", "e", "r", "t">>,
    <<"j", ".", "s", "h", "a", "d", "e", "r">>,
    <<"k", ".", "g", "e", "o", "m">>,
    <<"l", ".", "t", "e", "s", "c">>,
    <<"m", ".", "t", "e", "s", "e">>,
    <<"n", ".", "p", "y">>,
    <<"o", ".", "j", "s">>,
    <<"p", ".", "h", "t", "m", "l">>,
    <<"q", ".", "c", "s", "s">>,
    <<"r", ".", "t", "x", "t">>,
    <<"M", "a", "k", "e", "f", "i", "l", "e">>,
    <<"s", ".", "c", "p", "p", ".", "b", "a", "k">>,
    <<"s", "r", "c", "/", "h">>,
    <<"t", ".", "C", "P", "P">> >>

PoolTexts == << <<105, 110, 116>>, <<>>, <<65, 10, 66>> >>

EntryPool ==
    [i \in 1..Len(PoolPaths) |->
        [path |-> PoolPaths[i], content |-> PoolTexts[(i % Len(PoolTexts)) + 1]]]

Mappings ==
    UNION { { [i \in 1..n |-> EntryPool[f[i]]] :
                f \in { g \in [1..n -> 1..Len(EntryPool)] :
                          \A i, j \in 1..n : i # j => g[i] # g[j] } } :
            n \in 0..MaxEntries }

\* The destination before the run: absent, or a previous run's document.
PrevDisks == { NoDisk, [exists |-> TRUE, data |-> Document(<<EntryPool[1]>>)] }

InitEmit ==
    /\ file_data \in Mappings
    /\ prevDisk \in PrevDisks
    /\ disk = prevDisk
    /\ buffer = <<>>
    /\ entryNo = 0
    /\ step = 0
    /\ pc = "main"
    /\ stdout = <<>>
    /\ tree = <<>>
    /\ idx = 1
    /\ gathered_content = <<>>
    /\ readLog = <<>>
    /\ gPc = "returned"

\* if all_gathered_files: create_markdown_file(all_gathered_files, ...)
MainCallsEmit ==
    /\ pc = "main"
    /\ file_data # <<>>
    /\ pc' = "open"
    /\ UNCHANGED <<file_data, prevDisk, disk, buffer, entryNo, step, stdout>>
    /\ UNCHANGED gatherVars

\* MainNotFound writing the document all the same.
MainNotFoundWrites ==
    /\ pc = "main"
    /\ file_data = <<>>
    /\ pc' = "open"
    /\ UNCHANGED <<file_data, prevDisk, disk, buffer, entryNo, step, stdout>>
    /\ UNCHANGED gatherVars

\* else: print("Nie znaleziono ...") and the script ends.
MainNotFound ==
    /\ pc = "main"
    /\ file_data = <<>>
    /\ stdout' = Append(stdout, "not_found")
    /\ pc' = "exit_ok"
    /\ UNCHANGED <<file_data, prevDisk, disk, buffer, entryNo, step>>
    /\ UNCHANGED gatherVars

\* Open in append mode: the previous content stays.
OpenAppend ==
    /\ pc = "open"
    /\ disk' = [exists |-> TRUE, data |-> disk.data]
    /\ buffer' = <<>>
    /\ entryNo' = 1
    /\ step' = 1
    /\ pc' = IF file_data = <<>> THEN "close" ELSE "write"
    /\ UNCHANGED <<file_data, prevDisk, stdout>>
    /\ UNCHANGED gatherVars

\* open(output_path, 'w', encoding='utf-8'): creates or truncates.
Open ==
    /\ pc = "open"
    /\ disk' = [exists |-> TRUE, data |-> <<>>]
    /\ buffer' = <<>>
    /\ entryNo' = 1
    /\ step' = 1
    /\ pc' = IF file_data = <<>> THEN "close" ELSE "write"
    /\ UNCHANGED <<file_data, prevDisk, stdout>>
    /\ UNCHANGED gatherVars

\* open raises (permission denied): nothing is truncated, the exception
\* leaves create_markdown_file and __main__.
OpenFails ==
    /\ pc = "open"
    /\ pc' = "raised"
    /\ UNCHANGED <<file_data, prevDisk, disk, buffer, entryNo, step, stdout>>
    /\ UNCHANGED gatherVars

\* One md_file.write of the loop body.
Write ==
    /\ pc = "write"
    /\ buffer' = Append(buffer, ChunkOf(file_data[entryNo], step))
    /\ IF step < WritesPerEntry
       THEN /\ step' = step + 1
            /\ UNCHANGED <<entryNo, pc>>
       ELSE /\ step' = 1
            /\ entryNo' = entryNo + 1
            /\ pc' = IF entryNo < Len(file_data) THEN "write" ELSE "close"
    /\ UNCHANGED <<file_data, prevDisk, disk, stdout>>
    /\ UNCHANGED gatherVars

\* The buffer fills and is written out.
Flush ==
    /\ pc = "write"
    /\ buffer # <<>>
    /\ disk' = [disk EXCEPT !.data = disk.data \o buffer]
    /\ buffer' = <<>>
    /\ UNCHANGED <<file_data, prevDisk, entryNo, step, pc, stdout>>
    /\ UNCHANGED gatherVars

\* WriteFails with the error swallowed: the loop is left and the file closed.
WriteFailsSwallowed ==
    /\ pc = "write"
    /\ pc' = "close"
    /\ UNCHANGED <<file_data, prevDisk, disk, buffer, entryNo, step, stdout>>
    /\ UNCHANGED gatherVars

\* A write raises (disk full): the with block closes the file, which may
\* still get part of the buffer out, and the exception propagates.
WriteFails ==
    /\ pc = "write"
    /\ \E n \in 0..Len(buffer) :
         disk' = [disk EXCEPT !.data = disk.data \o SubSeq(buffer, 1, n)]
    /\ buffer' = <<>>
    /\ entryNo' = 0
    /\ step' = 0
    /\ pc' = "raised"
    /\ UNCHANGED <<file_data, prevDisk, stdout>>
    /\ UNCHANGED gatherVars

\* The with block ends: the buffer is flushed and the file closed.
Close ==
    /\ pc = "close"
    /\ disk' = [disk EXCEPT !.data = disk.data \o buffer]
    /\ buffer' = <<>>
    /\ entryNo' = 0
    /\ step' = 0
    /\ pc' = "print"
    /\ UNCHANGED <<file_data, prevDisk, stdout>>
    /\ UNCHANGED gatherVars

\* The flush of the close raises.
CloseFails ==
    /\ pc = "close"
    /\ \E n \in 0..(Len(buffer) - 1) :
         disk' = [disk EXCEPT !.data = disk.data \o SubSeq(buffer, 1, n)]
    /\ buffer' = <<>>
    /\ entryNo' = 0
    /\ step' = 0
    /\ pc' = "raised"
    /\ UNCHANGED <<file_data, prevDisk, stdout>>
    /\ UNCHANGED gatherVars

\* print(f"Zawartosc plikow zostala zapisana do: {output_path}")
PrintSaved ==
    /\ pc = "print"
    /\ stdout' = Append(stdout, "saved")
    /\ pc' = "exit_ok"
    /\ UNCHANGED <<file_data, prevDisk, disk, buffer, entryNo, step>>
    /\ UNCHANGED gatherVars

\* The process is terminated from outside: what is on the disk stays, the
\* buffer is lost.
Kill ==
    /\ pc \in {"main", "open", "write", "close", "print"}
    /\ pc' = "killed"
    /\ buffer' = <<>>
    /\ entryNo' = 0
    /\ step' = 0
    /\ UNCHANGED <<file_data, prevDisk, disk, stdout>>
    /\ UNCHANGED gatherVars

NextEmit ==
    \/ MainCallsEmit
    \/ MainNotFound
    \/ Open
    \/ OpenFails
    \/ Write
    \/ Flush
    \/ WriteFails
    \/ Close
    \/ CloseFails
    \/ PrintSaved
    \/ Kill

SpecEmit == InitEmit /\ [][NextEmit]_vars

(***************************************************************************)
(* Properties of the writer and the entry point.                           *)
(***************************************************************************)
ThisDocument == [exists |-> TRUE, data |-> Document(file_data)]

\* C7 as stated: a run whose mapping has no entries ends normally with an
\* (empty-bodied) output document written.
C7_EmptyMappingStillWritesDocument ==
    (file_data = <<>> /\ pc = "exit_ok") => disk = [exists |-> TRUE, data |-> <<>>]

\* C7 amended: with a mapping of no entries nothing crashes and the run ends
\* normally, but create_markdown_file is never entered: the destination stays
\* as it was before the run and the only output is the "nothing found"
\* diagnostic.
C7_EmptyMappingWritesNothing ==
    file_data = <<>> =>
        /\ pc \in {"main", "exit_ok", "killed"}
        /\ disk = prevDisk
        /\ pc = "exit_ok" => stdout = <<"not_found">>
        /\ pc # "exit_ok" => stdout = <<>>

C7_Witness ==
    /\ file_data = <<>>
    /\ pc = "exit_ok"
    /\ prevDisk.exists
    /\ disk = prevDisk
    /\ stdout = <<"not_found">>

\* C8 as stated: after an external termination the destination does not
\* exist, or holds the complete document of a previous run, or holds the
\* complete document of this run.
C8_NeverPartialWhenKilled ==
    pc = "killed" =>
        \/ ~disk.exists
        \/ disk = prevDisk
        \/ disk = ThisDocument

\* C8 amended: a run terminated before create_markdown_file opens the
\* destination leaves it untouched; from the open on the destination exists,
\* truncated, and holds a prefix of this run's document (empty, partial or
\* complete), so a termination inside create_markdown_file can leave it
\* partially written; it is complete once the with block has closed the file.
C8_KilledLeavesPrefix ==
    /\ pc \in {"main", "open"} => disk = prevDisk
    /\ pc \in {"write", "close"} =>
          /\ disk.exists
          /\ IsPrefix(disk.data \o buffer, Document(file_data))
    /\ pc = "close" => disk.data \o buffer = Document(file_data)
    /\ pc = "print" => disk = ThisDocument
    /\ pc = "killed" =>
          \/ disk = prevDisk
          \/ disk.exists /\ IsPrefix(disk.data, Document(file_data))

C8_Witness ==
    /\ pc = "killed"
    /\ disk.exists
    /\ Len(file_data) = 2
    /\ Len(disk.data) > WritesPerEntry
    /\ Len(disk.data) < Len(Document(file_data))
    /\ disk # prevDisk

\* C9: the success message is printed only once every chunk of every entry is
\* in the destination and the file is closed; a failed open, write or close
\* ends the run by the exception, with no success message, also when part of
\* the document was already written.
C9_SuccessOnlyAfterEverythingWritten ==
    /\ "saved" \in {stdout[i] : i \in 1..Len(stdout)} =>
          /\ pc = "exit_ok"
          /\ buffer = <<>>
          /\ disk = ThisDocument
    /\ pc = "raised" => stdout = <<>>
    /\ (pc = "exit_ok" /\ file_data # <<>>) => stdout = <<"saved">>

C9_Witness ==
    /\ pc = "raised"
    /\ ~prevDisk.exists
    /\ disk.exists
    /\ Len(disk.data) >= WritesPerEntry
    /\ disk # ThisDocument
    /\ stdout = <<>>

\* The tag the extension table of the claim gives a path.
ExpectedTag(file_path) ==
    LET Ext(e) == EndsWith(file_path, <<".">> \o e)
    IN  CASE Ext(<<"c", "p", "p">>) \/ Ext(<<"c", "x", "x">>) \/ Ext(<<"c", "c">>)
             \/ Ext(<<"h">>) \/ Ext(<<"h", "p", "p">>) \/ Ext(<<"h", "x", "x">>) -> "cpp"
          [] Ext(<<"g", "l", "s", "l">>) \/ Ext(<<"f", "r", "a", "g">>)
             \/ Ext(<<"v", "e", "r", "t">>) \/ Ext(<<"s", "h", "a", "d", "e", "r">>)
             \/ Ext(<<"g", "e", "o", "m">>) \/ Ext(<<"t", "e", "s", "c">>)
             \/ Ext(<<"t", "e", "s", "e">>) -> "glsl"
          [] Ext(<<"p", "y">>) -> "python"
          [] Ext(<<"j", "s">>) -> "javascript"
          [] Ext(<<"h", "t", "m", "l">>) -> "html"
          [] Ext(<<"c", "s", "s">>) -> "css"
          [] OTHER -> ""

\* C10: once create_markdown_file has closed the destination, it holds
\* exactly one section per entry, in the mapping's order and nothing of the
\* previous content: the heading with the entry's path, the opening fence
\* with the tag of the claim's table, the entry's whole content, the closing
\* fence and blank line.
C10_DocumentIsOneSectionPerEntry ==
    (pc = "print" \/ (pc = "exit_ok" /\ file_data # <<>>)) =>
        /\ disk.exists
        /\ Len(disk.data) = WritesPerEntry * Len(file_data)
        /\ \A i \in 1..Len(file_data) :
              LET at == WritesPerEntry * (i - 1)
              IN  /\ disk.data[at + 1] = [w |-> "heading", path |-> file_data[i].path]
                  /\ disk.data[at + 2] =
                        [w |-> "fence", lang |-> ExpectedTag(file_data[i].path)]
                  /\ disk.data[at + 3] = [w |-> "content", text |-> file_data[i].content]
                  /\ disk.data[at + 4] = [w |-> "end"]

C10_Witness ==
    /\ pc = "exit_ok"
    /\ Len(file_data) = 2
    /\ prevDisk.exists
    /\ disk # prevDisk
    /\ disk.data[2].lang = "cpp"
    /\ disk.data[6].lang = "glsl"
    /\ disk.data[7].text = <<65, 10, 66>>

====
